---- MODULE Spec2Model ----
(***************************************************************************)
(* Model of tests/utils/cairo.py: run_program_entrypoint, the harness that *)
(* calls one entry point of a compiled Cairo program through a CairoRunner.*)
(* The harness is modelled statement by statement; the CairoRunner, its    *)
(* segments, its memory and the VM stepping loop are modelled as far as    *)
(* the harness uses them.  Addresses and words are pairs <<segment,        *)
(* offset>>; a plain field element n is the pair <<-1, n>>.                *)
(***************************************************************************)
EXTENDS Integers, Sequences, FiniteSets, TLC

\* ---------------------------------------------------------------- bounds
\* number of code cells of the modelled programs
CodeLen == 2
\* vm.current_step is counted exactly up to MaxSteps and saturates there
MaxSteps == 3
\* longest list of declared builtins
MaxBuiltins == 2

\* ---------------------------------------------------------------- values
Felt(n) == <<-1, n>>
Reloc(seg, off) == <<seg, off>>
IsReloc(v) == v[1] >= 0
AddOff(a, k) == <<a[1], a[2] + k>>
\* an attribute that has not been assigned yet
Unset == <<-2, 0>>
NoSteps == -1

BuiltinNames == {"range_check", "output"}
EntryNames == {"main", "nonexistent"}
\* what a builtin runner's initial_stack() may return (opaque to the harness)
InitialStacks == {<< >>, <<Felt(1000)>>, <<Felt(7), Felt(8)>>}
\* program_input arguments: None, falsy values, and a non-empty mapping
ProgramInputs == {"None", "{}", "[]", "0", "{k:1}"}

\* instruction words: 0 = ret, 1 = not an instruction, 2+t = jmp abs t
OpRet == Felt(0)
OpInvalid == Felt(1)
OpJmp(t) == Felt(2 + t)
CodeWords(k) == {OpRet, OpInvalid} \cup {OpJmp(t) : t \in (0..(CodeLen - 1)) \ {k}}
Programs == {d \in [1..CodeLen -> {OpRet, OpInvalid} \cup {OpJmp(t) : t \in 0..(CodeLen - 1)}] :
                \A k \in 1..CodeLen : d[k] \in CodeWords(k - 1)}

NoDup(s) == \A a, b \in 1..Len(s) : a # b => s[a] # s[b]
BuiltinLists == {s \in UNION {[1..n -> BuiltinNames] : n \in 0..MaxBuiltins} : NoDup(s)}
Range(s) == {s[k] : k \in 1..Len(s)}

VARIABLES
    builtins,           \* program.builtins
    identifiers,        \* program.identifiers: "__main__.<name>" -> pc offset
    data,               \* program.data
    entrypoint,         \* argument
    program_input,      \* argument
    builtin_runners,    \* runner.builtin_runners: name -> initial_stack()
    allow_missing_builtins,
    line,               \* the statement the harness is about to execute
    error,              \* the kind of the exception that ended the call
    num_segments,       \* runner.segments: number of allocated segments
    program_base, execution_base,
    stack, i,
    return_fp, end,
    memory,
    initial_pc, initial_fp, initial_ap, final_pc,
    hint_program_input, \* hint_locals["program_input"]
    vm_pc, vm_fp, vm_ap, current_step,
    original_steps,
    ended, printed

vars == <<builtins, identifiers, data, entrypoint, program_input, builtin_runners,
          allow_missing_builtins, line, error, num_segments, program_base,
          execution_base, stack, i, return_fp, end, memory, initial_pc,
          initial_fp, initial_ap, final_pc, hint_program_input, vm_pc, vm_fp,
          vm_ap, current_step, original_steps, ended, printed>>

inputs == <<builtins, identifiers, data, entrypoint, program_input, builtin_runners,
            allow_missing_builtins>>
vmregs == <<vm_pc, vm_fp, vm_ap, current_step>>
initregs == <<initial_pc, initial_fp, initial_ap, final_pc>>

\* ------------------------------------------------------------ statements
Lines == <<"initialize_segments", "builtins", "add_return_fp", "add_end",
           "build_stack", "initialize_state", "set_fp_ap", "set_final_pc",
           "initialize_vm", "run_until_pc", "record_steps", "end_run",
           "print_output", "done">>
LineNo(l) == CHOOSE k \in 1..Len(Lines) : Lines[k] = l

SuccRecordAfterEnd(l) ==
    CASE l = "run_until_pc" -> "end_run"
      [] l = "end_run" -> "record_steps"
      [] l = "record_steps" -> "print_output"
      [] OTHER -> Lines[LineNo(l) + 1]
\* the statement that follows l in the function body
Succ(l) == Lines[LineNo(l) + 1]

AllowMissingTrue == TRUE
\* the allow_missing_builtins argument of the CairoRunner constructor
AllowMissingBuiltins == FALSE

EmptyMemory == [a \in {} |-> Felt(0)]

SegmentsAddNone(n) == n
\* runner.segments.add(): the new segment has index n, n+1 are then allocated
SegmentsAdd(n) == n + 1

\* the None that dict.get returns for an absent key
NoRunner == <<Unset>>
\* runner.builtin_runners.get(f"{builtin_name}_builtin")
GetRunner(runners, name) ==
    IF name \in DOMAIN runners THEN runners[name] ELSE NoRunner

FrameStackNoReturnFp(s, rfp, e) == s \o <<e>>
FrameStackSwapped(s, rfp, e) == s \o <<e, rfp>>
\* stack = stack + [return_fp, end]
FrameStack(s, rfp, e) == s \o <<rfp, e>>

NotFound == -1
GetByFullNameDefault(ids, name) ==
    IF name \in DOMAIN ids THEN ids[name] ELSE 0
\* program.identifiers.get_by_full_name(ScopedName(["__main__", name])).pc
GetByFullName(ids, name) ==
    IF name \in DOMAIN ids THEN ids[name] ELSE NotFound

\* runner.load_data(base, words): words[k] is written at base + k - 1
LoadData(mem, base, words) ==
    LET new == {AddOff(base, k - 1) : k \in 1..Len(words)}
    IN [a \in DOMAIN mem \cup new |->
           IF a \in new THEN words[a[2] - base[2] + 1] ELSE mem[a]]

InitialFpBase(base, s) == base
\* runner.execution_base + len(stack)
InitialFp(base, s) == AddOff(base, Len(s))

\* Python truthiness of the modelled program_input values
Truthy(v) == v \notin {"None", "{}", "[]", "0"}
\* program_input or {}
HintProgramInput(v) == IF Truthy(v) THEN v ELSE "{}"

ReachedPcAlways(pc, addr) == TRUE
\* run_until_pc: the loop stops when vm.run_context.pc == addr
ReachedPc(pc, addr) == pc = addr

\* vm.current_step += 1 (exact below MaxSteps)
StepCount(n) == IF n < MaxSteps THEN n + 1 ELSE n

Read(mem, a) == IF a \in DOMAIN mem THEN mem[a] ELSE Unset

\* the result of a vm_step that raises
Fault == <<Unset, Unset>>
\* one vm_step at pc: the new <<pc, fp>>, or Fault
VmExec(mem, pc, fp) ==
    LET w == Read(mem, pc)
    IN  IF w = OpRet
        THEN LET npc == Read(mem, AddOff(fp, -1))
                 nfp == Read(mem, AddOff(fp, -2))
             IN IF IsReloc(npc) /\ IsReloc(nfp) THEN <<npc, nfp>> ELSE Fault
        ELSE IF w = Unset \/ w = OpInvalid \/ IsReloc(w) \/ w[2] < 2
                  \/ w[2] - 2 >= Len(data)
             THEN Fault
             ELSE <<AddOff(program_base, w[2] - 2), fp>>

\* ------------------------------------------------------------------ Init
Init ==
    /\ builtins \in BuiltinLists
    /\ \E present \in SUBSET Range(builtins) :
           builtin_runners \in [present -> InitialStacks]
    /\ \E names \in {{}, {"main"}} : identifiers \in [names -> 0..(CodeLen - 1)]
    /\ data \in Programs
    /\ entrypoint \in EntryNames
    /\ program_input \in ProgramInputs
    /\ allow_missing_builtins = AllowMissingBuiltins
    /\ line = "initialize_segments"
    /\ error = "none"
    /\ num_segments = 0
    /\ program_base = Unset /\ execution_base = Unset
    /\ stack = << >> /\ i = 1
    /\ return_fp = Unset /\ end = Unset
    /\ memory = EmptyMemory
    /\ initial_pc = Unset /\ initial_fp = Unset /\ initial_ap = Unset
    /\ final_pc = Unset
    /\ hint_program_input = "unbound"
    /\ vm_pc = Unset /\ vm_fp = Unset /\ vm_ap = Unset /\ current_step = 0
    /\ original_steps = NoSteps
    /\ ended = FALSE /\ printed = FALSE

\* --------------------------------------------------------------- actions
\* runner.initialize_segments(): program segment, execution segment, then
\* one segment per builtin runner
InitializeSegments ==
    /\ line = "initialize_segments"
    /\ program_base' = Reloc(num_segments, 0)
    /\ execution_base' = Reloc(SegmentsAdd(num_segments), 0)
    /\ num_segments' = SegmentsAdd(SegmentsAdd(num_segments))
                          + Cardinality(DOMAIN builtin_runners)
    /\ line' = Succ(line)
    /\ UNCHANGED <<inputs, error, stack, i, return_fp, end, memory, initregs,
                   hint_program_input, vmregs, original_steps, ended, printed>>

\* one iteration of "for builtin_name in runner.program.builtins"
BuiltinStep ==
    /\ line = "builtins"
    /\ i <= Len(builtins)
    /\ LET builtin_runner == GetRunner(builtin_runners, builtins[i])
       IN IF builtin_runner = NoRunner
          THEN IF allow_missing_builtins
               THEN /\ stack' = stack \o <<Felt(0)>>
                    /\ i' = i + 1
                    /\ UNCHANGED <<line, error>>
               ELSE /\ line' = "failed"
                    /\ error' = "configuration"
                    /\ UNCHANGED <<stack, i>>
          ELSE /\ stack' = stack \o builtin_runner
               /\ i' = i + 1
               /\ UNCHANGED <<line, error>>
    /\ UNCHANGED <<inputs, num_segments, program_base, execution_base, return_fp,
                   end, memory, initregs, hint_program_input, vmregs,
                   original_steps, ended, printed>>

\* the for loop is exhausted
BuiltinsDone ==
    /\ line = "builtins"
    /\ i > Len(builtins)
    /\ line' = Succ(line)
    /\ UNCHANGED <<inputs, error, num_segments, program_base, execution_base,
                   stack, i, return_fp, end, memory, initregs,
                   hint_program_input, vmregs, original_steps, ended, printed>>

\* return_fp = runner.segments.add()
AddReturnFp ==
    /\ line = "add_return_fp"
    /\ return_fp' = Reloc(num_segments, 0)
    /\ num_segments' = SegmentsAdd(num_segments)
    /\ line' = Succ(line)
    /\ UNCHANGED <<inputs, error, program_base, execution_base, stack, i, end,
                   memory, initregs, hint_program_input, vmregs, original_steps,
                   ended, printed>>

\* end = runner.segments.add()
AddEnd ==
    /\ line = "add_end"
    /\ end' = Reloc(num_segments, 0)
    /\ num_segments' = SegmentsAdd(num_segments)
    /\ line' = Succ(line)
    /\ UNCHANGED <<inputs, error, program_base, execution_base, stack, i,
                   return_fp, memory, initregs, hint_program_input, vmregs,
                   original_steps, ended, printed>>

\* stack = stack + [return_fp, end]
BuildStack ==
    /\ line = "build_stack"
    /\ stack' = FrameStack(stack, return_fp, end)
    /\ line' = Succ(line)
    /\ UNCHANGED <<inputs, error, num_segments, program_base, execution_base, i,
                   return_fp, end, memory, initregs, hint_program_input, vmregs,
                   original_steps, ended, printed>>

\* runner.initialize_state(entrypoint=<resolved pc>, stack=stack): the
\* argument is resolved first; then the program and the stack are loaded
InitializeState ==
    /\ line = "initialize_state"
    /\ LET pc == GetByFullName(identifiers, entrypoint)
       IN IF pc = NotFound
          THEN /\ line' = "failed"
               /\ error' = "resolution"
               /\ UNCHANGED <<memory, initial_pc>>
          ELSE /\ initial_pc' = AddOff(program_base, pc)
               /\ memory' = LoadData(LoadData(memory, program_base, data),
                                     execution_base, stack)
               /\ line' = Succ(line)
               /\ UNCHANGED error
    /\ UNCHANGED <<inputs, num_segments, program_base, execution_base, stack, i,
                   return_fp, end, initial_fp, initial_ap, final_pc,
                   hint_program_input, vmregs, original_steps, ended, printed>>

\* runner.initial_fp = runner.initial_ap = runner.execution_base + len(stack)
SetInitialFpAp ==
    /\ line = "set_fp_ap"
    /\ initial_fp' = InitialFp(execution_base, stack)
    /\ initial_ap' = InitialFp(execution_base, stack)
    /\ line' = Succ(line)
    /\ UNCHANGED <<inputs, error, num_segments, program_base, execution_base,
                   stack, i, return_fp, end, memory, initial_pc, final_pc,
                   hint_program_input, vmregs, original_steps, ended, printed>>

\* runner.final_pc = end
SetFinalPc ==
    /\ line = "set_final_pc"
    /\ final_pc' = end
    /\ line' = Succ(line)
    /\ UNCHANGED <<inputs, error, num_segments, program_base, execution_base,
                   stack, i, return_fp, end, memory, initial_pc, initial_fp,
                   initial_ap, hint_program_input, vmregs, original_steps, ended,
                   printed>>

\* runner.initialize_vm(hint_locals={"program_input": program_input or {}})
InitializeVm ==
    /\ line = "initialize_vm"
    /\ hint_program_input' = HintProgramInput(program_input)
    /\ vm_pc' = initial_pc
    /\ vm_ap' = initial_ap
    /\ vm_fp' = initial_fp
    /\ current_step' = 0
    /\ line' = Succ(line)
    /\ UNCHANGED <<inputs, error, num_segments, program_base, execution_base,
                   stack, i, return_fp, end, memory, initregs, original_steps,
                   ended, printed>>

\* runner.run_until_pc(end): one vm_step while the pc is not at end
VmStep ==
    /\ line = "run_until_pc"
    /\ ~ReachedPc(vm_pc, end)
    /\ LET r == VmExec(memory, vm_pc, vm_fp)
       IN IF r = Fault
          THEN /\ line' = "failed"
               /\ error' = "execution"
               /\ UNCHANGED vmregs
          ELSE /\ vm_pc' = r[1]
               /\ vm_fp' = r[2]
               /\ current_step' = StepCount(current_step)
               /\ UNCHANGED <<vm_ap, line, error>>
    /\ UNCHANGED <<inputs, num_segments, program_base, execution_base, stack, i,
                   return_fp, end, memory, initregs, hint_program_input,
                   original_steps, ended, printed>>

\* runner.run_until_pc(end) returns
RunReturn ==
    /\ line = "run_until_pc"
    /\ ReachedPc(vm_pc, end)
    /\ line' = Succ(line)
    /\ UNCHANGED <<inputs, error, num_segments, program_base, execution_base,
                   stack, i, return_fp, end, memory, initregs,
                   hint_program_input, vmregs, original_steps, ended, printed>>

\* runner.original_steps = runner.vm.current_step
RecordSteps ==
    /\ line = "record_steps"
    /\ original_steps' = current_step
    /\ line' = Succ(line)
    /\ UNCHANGED <<inputs, error, num_segments, program_base, execution_base,
                   stack, i, return_fp, end, memory, initregs,
                   hint_program_input, vmregs, ended, printed>>

\* runner.end_run(disable_trace_padding=False) returns
EndRun ==
    /\ line = "end_run"
    /\ ended' = TRUE
    /\ line' = Succ(line)
    /\ UNCHANGED <<inputs, error, num_segments, program_base, execution_base,
                   stack, i, return_fp, end, memory, initregs,
                   hint_program_input, vmregs, original_steps, printed>>

\* runner.end_run(disable_trace_padding=False) raises
EndRunFails ==
    /\ line = "end_run"
    /\ line' = "failed"
    /\ error' = "finalization"
    /\ UNCHANGED <<inputs, num_segments, program_base, execution_base, stack, i,
                   return_fp, end, memory, initregs, hint_program_input, vmregs,
                   original_steps, ended, printed>>

\* runner.print_output()
PrintOutput ==
    /\ line = "print_output"
    /\ printed' = TRUE
    /\ line' = Succ(line)
    /\ UNCHANGED <<inputs, error, num_segments, program_base, execution_base,
                   stack, i, return_fp, end, memory, initregs,
                   hint_program_input, vmregs, original_steps, ended>>

Next ==
    \/ InitializeSegments
    \/ BuiltinStep
    \/ BuiltinsDone
    \/ AddReturnFp
    \/ AddEnd
    \/ BuildStack
    \/ InitializeState
    \/ SetInitialFpAp
    \/ SetFinalPc
    \/ InitializeVm
    \/ VmStep
    \/ RunReturn
    \/ RecordSteps
    \/ EndRun
    \/ EndRunFails
    \/ PrintOutput

Spec == Init /\ [][Next]_vars

\* the interpreter executes the next statement, and the VM the next step,
\* whenever there is one
FairSpec == Spec /\ WF_vars(Next)

\* ------------------------------------------------------- claim vocabulary
AtOrAfter(l) == line # "failed" /\ LineNo(line) >= LineNo(l)
HasRunner(k) == builtins[k] \in DOMAIN builtin_runners
MissingRunner == \E k \in 1..Len(builtins) : ~HasRunner(k)
EntryResolves == entrypoint \in DOMAIN identifiers
\* the stack has been completed (statement "stack = stack + [return_fp, end]")
StackBuilt == AtOrAfter("initialize_state") \/ (line = "failed" /\ error # "configuration")
\* the run stage has been entered
RunReached == AtOrAfter("run_until_pc") \/ (line = "failed" /\ error \in {"execution", "finalization"})
\* run_until_pc has returned
RunReturned == AtOrAfter("record_steps") \/ (line = "failed" /\ error = "finalization")

\* a builtin's contribution: its runner's initial_stack(), or the placeholder
ContributionOf(name) ==
    IF name \in DOMAIN builtin_runners THEN builtin_runners[name] ELSE <<Felt(0)>>
RECURSIVE SumLen(_)
SumLen(bs) == IF bs = << >> THEN 0 ELSE Len(ContributionOf(Head(bs))) + SumLen(Tail(bs))
RECURSIVE Concat(_)
Concat(bs) == IF bs = << >> THEN << >> ELSE ContributionOf(Head(bs)) \o Concat(Tail(bs))

\* C1: the stack handed to initialize_state has length
\* (sum of the lengths of the declared builtins' contributions) + 2.
C1_StackLength ==
    StackBuilt => Len(stack) = SumLen(builtins) + 2
C1_Witness ==
    /\ line = "initialize_state"
    /\ Len(builtins) = 2
    /\ Len(stack) = 5

\* C2: the last word of the constructed stack is the end sentinel, which is
\* the second freshly allocated segment; once run_until_pc has returned,
\* runner.final_pc and the VM's pc both equal that address.
C2_EndSentinel ==
    /\ StackBuilt => /\ stack[Len(stack)] = end
                     /\ end = Reloc(return_fp[1] + 1, 0)
                     /\ end = Reloc(num_segments - 1, 0)
    /\ RunReturned => final_pc = end /\ vm_pc = end
C2_Witness ==
    /\ line = "done"
    /\ current_step >= 2
    /\ vm_pc = end

\* C3: no memory cell is written unless every declared builtin has a runner
\* and the entry point resolves.  With a missing runner the call never gets
\* past the builtin loop and ends with the configuration error; with an
\* unknown entry point it never gets past the resolution and ends with the
\* resolution error (the configuration error, raised earlier, if a runner is
\* missing as well); in both cases the memory stays empty.
C3_NoWriteBeforeChecks ==
    /\ DOMAIN memory # {} => ~MissingRunner /\ EntryResolves
    /\ MissingRunner =>
          /\ line \in {"initialize_segments", "builtins", "failed"}
          /\ line = "failed" => error = "configuration"
    /\ ~EntryResolves =>
          /\ line = "failed" \/ LineNo(line) <= LineNo("initialize_state")
          /\ line = "failed" =>
                error = IF MissingRunner THEN "configuration" ELSE "resolution"
C3_Witness ==
    /\ line = "failed"
    /\ error = "resolution"
    /\ Len(stack) = 4
    /\ DOMAIN memory = {}

\* C4 as stated: after a resolution error no segment has been allocated.
C4_Original ==
    (line = "failed" /\ error = "resolution") => num_segments = 0
\* C4 amended: a resolution error is raised after the program, execution,
\* builtin, return-fp and end segments have been allocated, and before any
\* memory cell or register is written.
C4_Amended ==
    (line = "failed" /\ error = "resolution") =>
        /\ num_segments = 4 + Cardinality(DOMAIN builtin_runners)
        /\ program_base = Reloc(0, 0) /\ execution_base = Reloc(1, 0)
        /\ return_fp = Reloc(num_segments - 2, 0)
        /\ end = Reloc(num_segments - 1, 0)
        /\ DOMAIN memory = {}
        /\ initial_pc = Unset /\ initial_fp = Unset /\ initial_ap = Unset
        /\ vm_pc = Unset
C4_Witness ==
    /\ line = "failed"
    /\ error = "resolution"
    /\ num_segments = 5
    /\ return_fp = Reloc(3, 0)

\* the loop has dealt with the k-th declared builtin
Visited(k) == k < i \/ (k = i /\ line = "failed" /\ error = "configuration")
\* C5 as stated: a declared builtin without a runner, once the loop has dealt
\* with it, has contributed the single word 0 at its position and the call
\* goes on.
C5_Original ==
    \A k \in 1..Len(builtins) :
        (~HasRunner(k) /\ Visited(k)) =>
            /\ line # "failed"
            /\ Len(stack) > SumLen(SubSeq(builtins, 1, k - 1))
            /\ stack[SumLen(SubSeq(builtins, 1, k - 1)) + 1] = Felt(0)
\* C5 amended: the runner is built with allow_missing_builtins=False, so a
\* declared builtin without a runner ends the call with the configuration
\* error at its position in declaration order and no placeholder word is
\* ever put on the stack: every builtin the loop has got past has a runner.
C5_Amended ==
    /\ ~allow_missing_builtins
    /\ \A k \in 1..Len(builtins) :
          (~HasRunner(k) /\ Visited(k)) =>
              /\ line = "failed" /\ error = "configuration"
              /\ i = k
              /\ stack = Concat(SubSeq(builtins, 1, k - 1))
    /\ \A k \in 1..Len(builtins) : k < i => HasRunner(k)
C5_Witness ==
    /\ line = "failed"
    /\ error = "configuration"
    /\ i = 2
    /\ Len(stack) = 2

\* C6: when the run stage is reached the stack is the contributions in
\* declaration order, then return_fp, then end; it is in memory from the
\* execution base on; initial fp = initial ap = execution base + stack
\* length; the initial pc is the code address of "__main__.<entrypoint>";
\* the VM starts from these registers.
C6_InitialState ==
    RunReached =>
        /\ stack = Concat(builtins) \o <<return_fp, end>>
        /\ \A k \in 1..Len(stack) :
              /\ AddOff(execution_base, k - 1) \in DOMAIN memory
              /\ memory[AddOff(execution_base, k - 1)] = stack[k]
        /\ initial_fp = <<execution_base[1], execution_base[2] + Len(stack)>>
        /\ initial_ap = initial_fp
        /\ initial_pc = <<program_base[1], identifiers[entrypoint]>>
        /\ (line = "run_until_pc" /\ current_step = 0) =>
              vm_pc = initial_pc /\ vm_fp = initial_fp /\ vm_ap = initial_ap
C6_Witness ==
    /\ line = "run_until_pc"
    /\ current_step = 0
    /\ builtins = <<"range_check">>
    /\ stack = <<Felt(1000), return_fp, end>>
    /\ vm_ap = AddOff(execution_base, 3)
    /\ vm_fp = vm_ap

Rank(l) == IF l = "failed" THEN Len(Lines) + 1 ELSE LineNo(l)
C7_Order ==
    /\ original_steps # NoSteps => vm_pc = end /\ RunReturned
    /\ (line = "failed" /\ error \in {"configuration", "resolution", "execution"}) =>
          original_steps = NoSteps /\ ~ended /\ ~printed
    /\ line = "failed" <=> error # "none"
    /\ ended => original_steps # NoSteps
    /\ printed => ended
    /\ line = "done" => printed
C7_Forward ==
    /\ Rank(line') >= Rank(line)
    /\ Rank(line') = Rank(line) => line \in {"builtins", "run_until_pc"}
    /\ (line # "failed" /\ line' # "failed") => Rank(line') <= Rank(line) + 1
\* C7: the statements run strictly forward; the step count is recorded only
\* after the VM's pc has reached the end sentinel; a configuration error, a
\* resolution error or an execution fault ends the call with the step count
\* unrecorded and neither end_run nor print_output performed; the step
\* count is recorded before end_run, and output is printed only after
\* end_run has returned.
C7_Stages == [](C7_Order) /\ [][C7_Forward]_vars
C7_Witness ==
    /\ line = "failed"
    /\ error = "execution"
    /\ current_step >= 1
    /\ original_steps = NoSteps

RunOutcome ==
    \/ line = "record_steps" /\ vm_pc = end
    \/ line = "failed" /\ error = "execution"
\* C9 as stated: a call that reaches run_until_pc(end) eventually leaves it,
\* with the pc at the end sentinel or with a VM fault.
C9_Original == (line = "run_until_pc") ~> RunOutcome
\* C9 amended: run_until_pc(end) can be left in exactly two ways, the pc
\* having reached the end sentinel or a VM fault; as long as neither happens
\* the VM keeps stepping (there is no cancellation, timeout or step limit,
\* so a program that never gets to the sentinel steps forever).
C9_Amended ==
    [][line = "run_until_pc" =>
          \/ line' = "run_until_pc" /\ vm_pc # end
                /\ current_step' = StepCount(current_step)
          \/ line' = "record_steps" /\ vm_pc = end /\ vm_pc' = vm_pc
          \/ line' = "failed" /\ error' = "execution" /\ vm_pc # end]_vars
C9_Witness ==
    /\ line = "run_until_pc"
    /\ current_step = MaxSteps
    /\ vm_pc # end

\* C10: hint_locals["program_input"] is the program_input argument whenever
\* one was supplied, and {} only when it is None.
C10_ProgramInputBound ==
    hint_program_input # "unbound" =>
        hint_program_input = IF program_input = "None" THEN "{}" ELSE program_input

====
